---- MODULE Spec2Model ----
(***************************************************************************)
(* Model of src/server.py: a static file server.  _safe_path maps a raw   *)
(* request path to a canonical filesystem path inside the served root or   *)
(* to None; StaticFileHandler._handle_request turns one request into one   *)
(* HTTP response.                                                          *)
(*                                                                         *)
(* Strings are sequences of tokens.  The tokens "/", "?" and "#" are the   *)
(* only characters the code inspects one by one; every other token is a    *)
(* whole path segment (".", "..", "etc", ...), which the code only ever    *)
(* compares as a whole.  A filesystem path is the sequence of its segment  *)
(* names from "/" down (<<"srv", "www">> is /srv/www).                     *)
(***************************************************************************)
EXTENDS Integers, Sequences, FiniteSets, TLC

VARIABLES
    fs,         \* the filesystem: canonical path -> node
    root,       \* server.root_directory (src/server.py:111)
    h,          \* the frame of _handle_request: its locals, position and output
    dirty,      \* the filesystem changed since the request in h started
    dirtyRead   \* the filesystem changed since h read the file

vars == <<fs, root, h, dirty, dirtyRead>>

\* ------------------------------------------------------------------ bounds

\* Longest file content, in bytes.
MaxLen == 1
\* Most "/"-separated segments of a generated request path.
MaxSegs == 4

Bytes == {0, 1}

RECURSIVE SeqsUpTo(_, _)
SeqsUpTo(S, n) ==
    IF n = 0 THEN {<<>>}
    ELSE LET shorter == SeqsUpTo(S, n - 1)
         IN  shorter \cup {Append(s, x) : s \in {t \in shorter : Len(t) = n - 1}, x \in S}

Datas == SeqsUpTo(Bytes, MaxLen)

\* ------------------------------------------------------ string functions

\* s.split(sep)[0]: the part of s before the first sep.
SplitFirst(s, sep) ==
    LET at == {i \in 1..Len(s) : s[i] = sep}
    IN  IF at = {} THEN s
        ELSE SubSeq(s, 1, (CHOOSE i \in at : \A j \in at : i <= j) - 1)

\* request_path.split("?")[0].split("#")[0]
StripQuery(s) == SplitFirst(SplitFirst(s, "?"), "#")

\* s.split("/"): the components between the slashes, "" for an empty one.
RECURSIVE SplitSlash(_)
SplitSlash(s) ==
    IF s = <<>> THEN <<"">>
    ELSE IF Head(s) = "/" THEN <<"">> \o SplitSlash(Tail(s))
    ELSE <<Head(s)>> \o Tail(SplitSlash(Tail(s)))

\* "/".join(comps)
RECURSIVE JoinSlash(_)
JoinSlash(comps) ==
    IF comps = <<>> THEN <<>>
    ELSE LET first == IF Head(comps) = "" THEN <<>> ELSE <<Head(comps)>>
         IN  IF Len(comps) = 1 THEN first
             ELSE first \o <<"/">> \o JoinSlash(Tail(comps))

StartsWith(s, n) == Len(s) >= n /\ \A i \in 1..n : s[i] = "/"

\* posixpath.normpath's count of initial slashes: exactly two are kept as two.
InitialSlashes(s) ==
    IF ~StartsWith(s, 1) THEN 0
    ELSE IF StartsWith(s, 2) /\ ~StartsWith(s, 3) THEN 2
    ELSE 1

\* posixpath.normpath's loop over the components.
RECURSIVE NormComps(_, _, _)
NormComps(comps, new, initial) ==
    IF comps = <<>> THEN new
    ELSE LET comp == Head(comps)
             rest == Tail(comps)
         IN  IF comp \in {"", "."} THEN NormComps(rest, new, initial)
             ELSE IF \/ comp # ".."
                     \/ (initial = 0 /\ new = <<>>)
                     \/ (new # <<>> /\ new[Len(new)] = "..")
                  THEN NormComps(rest, Append(new, comp), initial)
             ELSE IF new # <<>>
                  THEN NormComps(rest, SubSeq(new, 1, Len(new) - 1), initial)
             ELSE NormComps(rest, new, initial)

Slashes(n) == [i \in 1..n |-> "/"]

\* posixpath.normpath(path)
NormPath(s) ==
    IF s = <<>> THEN <<".">>
    ELSE LET initial == InitialSlashes(s)
             path == Slashes(initial) \o JoinSlash(NormComps(SplitSlash(s), <<>>, initial))
         IN  IF path = <<>> THEN <<".">> ELSE path

\* A plausible slip: strip one leading "/" only.
StripOneSlash(s) == IF s # <<>> /\ Head(s) = "/" THEN Tail(s) ELSE s

\* normalized.lstrip("/"): every leading "/" is removed.
RECURSIVE LStrip(_)
LStrip(s) == IF s # <<>> /\ Head(s) = "/" THEN LStrip(Tail(s)) ELSE s

\* ------------------------------------------------------------- filesystem

NoNode == [kind |-> "none", data |-> <<>>, health |-> "ok", target |-> <<>>]
DirNode == [kind |-> "dir", data |-> <<>>, health |-> "ok", target |-> <<>>]
FileNode(d, hl) == [kind |-> "file", data |-> d, health |-> hl, target |-> <<>>]
LinkNode(t) == [kind |-> "link", data |-> <<>>, health |-> "ok", target |-> t]

\* What a file can be: fine, without read permission, or failing on read (EIO).
Healths == {"ok", "noperm", "eio"}

Lookup(f, p) == IF p \in DOMAIN f THEN f[p] ELSE NoNode

\* os.path.realpath, as Path.resolve() (non-strict) calls it: ".." pops,
\* a symbolic link is replaced by its (absolute) target, a missing
\* component is kept.
RECURSIVE JoinRealPath(_, _, _)
JoinRealPath(f, path, rest) ==
    IF rest = <<>> THEN path
    ELSE LET name == Head(rest)
             newpath == Append(path, name)
         IN  IF name = ".."
             THEN JoinRealPath(f, IF path = <<>> THEN <<>>
                                  ELSE SubSeq(path, 1, Len(path) - 1), Tail(rest))
             ELSE IF Lookup(f, newpath).kind # "link"
             THEN JoinRealPath(f, newpath, Tail(rest))
             ELSE JoinRealPath(f, JoinRealPath(f, <<>>, Lookup(f, newpath).target),
                               Tail(rest))

\* Path.resolve()
Resolve(f, parts) == JoinRealPath(f, <<>>, parts)

\* The node a path names after following symbolic links (stat, not lstat).
Stat(f, p) == Lookup(f, Resolve(f, p))

\* The parts pathlib keeps of a path string: no empty and no "." components.
PathParts(s) == SelectSeq(SplitSlash(s), LAMBDA c : c \notin {"", "."})

\* root / relative: an absolute right-hand side replaces the left-hand side.
JoinPath(r, relative) ==
    IF relative # <<>> /\ Head(relative) = "/" THEN PathParts(relative)
    ELSE r \o PathParts(relative)

IsPrefix(a, b) == Len(a) <= Len(b) /\ SubSeq(b, 1, Len(a)) = a

\* The names that have another name as a proper string prefix.
NamePrefixes == {<<"www", "www-other">>}

\* A plausible slip: containment by string prefix (str(candidate).startswith(str(root))).
StringPrefixOf(candidate, r) ==
    \/ IsPrefix(r, candidate)
    \/ /\ r # <<>>
       /\ Len(candidate) >= Len(r)
       /\ SubSeq(candidate, 1, Len(r) - 1) = SubSeq(r, 1, Len(r) - 1)
       /\ <<r[Len(r)], candidate[Len(r)]>> \in NamePrefixes

\* candidate.relative_to(root) does not raise: root's parts are a prefix of
\* candidate's parts.
RelativeTo(candidate, r) == IsPrefix(r, candidate)

\* _safe_path's locals.
SafePathLocals(f, r, request_path) ==
    LET stripped == StripQuery(request_path)
        normalized == NormPath(stripped)
        relative == LStrip(normalized)
        candidate == Resolve(f, JoinPath(r, relative))
    IN  [normalized |-> normalized, relative |-> relative, candidate |-> candidate]

\* _safe_path(root, request_path): safe = FALSE stands for None.
SafePath(f, r, request_path) ==
    LET l == SafePathLocals(f, r, request_path)
    IN  [safe |-> RelativeTo(l.candidate, r), candidate |-> l.candidate]

\* --------------------------------------------------------- the served tree

Www == <<"srv", "www">>
WwwOther == <<"srv", "www-other">>
Secret == WwwOther \o <<"secret">>
Passwd == <<"etc", "passwd">>
IndexHtml == Www \o <<"index.html">>
ATxt == Www \o <<"a.txt">>
Sub == Www \o <<"sub">>
SubIndexHtml == Sub \o <<"index.html">>
Out == Www \o <<"out">>

\* /srv/www holds index.html, a.txt, sub/ (no index) and out, a symbolic link
\* to the sibling directory /srv/www-other; /etc/passwd lies outside.
Tree ==
    (<<>> :> DirNode) @@ (<<"etc">> :> DirNode) @@ (Passwd :> FileNode(<<0>>, "ok"))
    @@ (<<"srv">> :> DirNode) @@ (Www :> DirNode) @@ (WwwOther :> DirNode)
    @@ (Secret :> FileNode(<<1>>, "ok"))
    @@ (IndexHtml :> FileNode(<<>>, "ok")) @@ (ATxt :> FileNode(<<>>, "ok"))
    @@ (Sub :> DirNode) @@ (SubIndexHtml :> NoNode)
    @@ (Out :> LinkNode(WwwOther))

\* What the other processes of the machine may do to the tree.
Writable == {ATxt, IndexHtml}
Removable == {ATxt, IndexHtml, SubIndexHtml}
Creatable == {ATxt, IndexHtml, SubIndexHtml}
Chmodable == {ATxt, IndexHtml}
Linkable == {IndexHtml}
LinkTargets == {Passwd}

\* ------------------------------------------------------------ the handler

\* mimetypes.guess_type(str(path))[0] or "application/octet-stream"
GuessType(p) ==
    LET name == IF p = <<>> THEN "" ELSE p[Len(p)]
    IN  IF name = "index.html" THEN "text/html"
        ELSE IF name = "a.txt" THEN "text/plain"
        ELSE "application/octet-stream"

NoLocals == [normalized |-> <<>>, relative |-> <<>>, candidate |-> <<>>]

\* No request in hand.  status, ctype, clen, body, wrote and nresp are what
\* went to the client: the status (0: none), the Content-Type and
\* Content-Length headers of lines 94-95, the body bytes, whether a body
\* was written and the number of responses.  error and explain are the
\* code and explanation _send_error was called with (0: not called);
\* raised says that an exception left _handle_request.
Idle ==
    [pc |-> "idle", send_body |-> FALSE, request_path |-> <<>>,
     safe_path |-> NoLocals, path |-> <<>>, content |-> <<>>, opened |-> <<>>,
     status |-> 0, ctype |-> "", clen |-> 0, body |-> <<>>, wrote |-> FALSE,
     nresp |-> 0, error |-> 0, explain |-> "", raised |-> FALSE]

\* do_GET / do_HEAD entered with self.path = request_path.
Frame(request_path, send_body) ==
    [Idle EXCEPT !.pc = "safe_path", !.request_path = request_path,
                 !.send_body = send_body]

\* _send_error (lines 103-104) calls
\* self.send_error(code, message, explanation=explanation), and
\* BaseHTTPRequestHandler.send_error(code, message=None, explain=None) has no
\* parameter of that name: the call raises TypeError before a byte is
\* sent, and the exception leaves _handle_request (from the except block
\* of line 88 too).
SendError(fr, code, explanation) ==
    [fr EXCEPT !.pc = "done", !.error = code, !.explain = explanation,
               !.raised = TRUE]

\* Lines 62-66.
SafePathStep(fr, f, r) ==
    LET l == SafePathLocals(f, r, fr.request_path)
        sp == SafePath(f, r, fr.request_path)
        fr1 == [fr EXCEPT !.safe_path = l]
    IN  IF ~sp.safe THEN SendError(fr1, 403, "outside root")
        ELSE [fr1 EXCEPT !.path = sp.candidate, !.pc = "is_dir"]

\* Line 68.
IsDirStep(fr, f) ==
    IF Stat(f, fr.path).kind = "dir" THEN [fr EXCEPT !.pc = "index"]
    ELSE [fr EXCEPT !.pc = "exists"]

\* Lines 69-74.
IndexStep(fr, f) ==
    LET index_file == Append(fr.path, "index.html")
    IN  IF Stat(f, index_file).kind # "none"
        THEN [fr EXCEPT !.path = index_file, !.pc = "exists"]
        ELSE SendError(fr, 403, "directory listing")

\* Lines 76-78.
ExistsStep(fr, f) ==
    IF Stat(f, fr.path).kind = "none" THEN SendError(fr, 404, "not found")
    ELSE [fr EXCEPT !.pc = "access"]

\* os.access(path, os.R_OK)
Access(f, p) ==
    LET node == Stat(f, p)
    IN  node.kind # "none" /\ ~(node.kind = "file" /\ node.health = "noperm")

\* Lines 80-82.
AccessStep(fr, f) ==
    IF ~Access(f, fr.path) THEN SendError(fr, 403, "not readable")
    ELSE [fr EXCEPT !.pc = "open"]

\* A plausible slip: the condition of line 87 inverted.
ReadInverted(send_body, node) == IF ~send_body THEN node.data ELSE <<>>

\* Line 87: content = file_obj.read() if send_body else b""
ReadContent(send_body, node) == IF send_body THEN node.data ELSE <<>>

\* Lines 84-91: open, and read only when a body is wanted; every OSError
\* becomes a 500 carrying str(error).
OpenStep(fr, f) ==
    LET node == Stat(f, fr.path)
    IN  IF node.kind = "none" THEN SendError(fr, 500, "ENOENT")
        ELSE IF node.kind = "dir" THEN SendError(fr, 500, "EISDIR")
        ELSE IF node.health = "noperm" THEN SendError(fr, 500, "EACCES")
        ELSE IF fr.send_body /\ node.health = "eio" THEN SendError(fr, 500, "EIO")
        ELSE [fr EXCEPT !.content = ReadContent(fr.send_body, node),
                        !.opened = Resolve(f, fr.path),
                        !.pc = "send"]

\* A plausible slip: Content-Length taken from the name's own entry (lstat).
LStatSize(f, p) == Len(Lookup(f, p).data)

\* path.stat().st_size
StatSize(f, p) == Len(Stat(f, p).data)

\* Lines 93-98.  path.stat() is outside the try: when the file is gone the
\* exception leaves _handle_request with the status line still in the
\* header buffer, and nothing is sent.
SendStep(fr, f) ==
    IF Stat(f, fr.path).kind = "none"
    THEN [fr EXCEPT !.pc = "done", !.raised = TRUE]
    ELSE [fr EXCEPT !.pc = "done", !.status = 200, !.ctype = GuessType(fr.path),
                    !.clen = StatSize(f, fr.path),
                    !.body = IF fr.send_body THEN fr.content ELSE <<>>,
                    !.wrote = fr.send_body, !.nresp = @ + 1]

\* _handle_request's next step from wherever the frame stands.
HandlerStep(fr, f, r) ==
    CASE fr.pc = "safe_path" -> SafePathStep(fr, f, r)
      [] fr.pc = "is_dir" -> IsDirStep(fr, f)
      [] fr.pc = "index" -> IndexStep(fr, f)
      [] fr.pc = "exists" -> ExistsStep(fr, f)
      [] fr.pc = "access" -> AccessStep(fr, f)
      [] fr.pc = "open" -> OpenStep(fr, f)
      [] fr.pc = "send" -> SendStep(fr, f)
      [] OTHER -> fr

\* _handle_request run to its end on a filesystem nobody else touches.
RECURSIVE Run(_, _, _)
Run(fr, f, r) ==
    IF fr.pc \in {"idle", "done"} THEN fr ELSE Run(HandlerStep(fr, f, r), f, r)

\* ------------------------------------------------------------- the inputs

Seg(path) == JoinSlash(<<"">> \o path)

\* The requests the handler is driven with.
Requests ==
    { <<"/">>,
      Seg(<<"index.html">>),
      Seg(<<"a.txt">>),
      Seg(<<"a.txt">>) \o <<"?", "q">>,
      Seg(<<"sub">>) \o <<"/">>,
      Seg(<<"sub", "index.html">>),
      Seg(<<"missing.txt">>),
      Seg(<<"..", "..", "etc", "passwd">>),
      Seg(<<"out", "secret">>),
      JoinSlash(<<"..", "www-other", "secret">>),
      <<"/">> \o Seg(<<"etc", "passwd">>) }

\* The request paths _safe_path is driven with: up to MaxSegs segments
\* joined by "/" (an empty segment gives a leading, doubled or trailing
\* slash), then nothing, a query or a fragment.
SegNames == {"", ".", "..", "etc", "out", "sub", "www-other"}
Suffixes == {<<>>, <<"?", "/", "..", "#", "x">>, <<"#", "/", "..", "?", "x">>}
GenPaths == {JoinSlash(segs) \o suffix : segs \in SeqsUpTo(SegNames, MaxSegs),
                                        suffix \in Suffixes}
Roots == {Www, <<"srv">>}

\* ------------------------------------------------------------ the actions

Init ==
    /\ fs = Tree
    /\ root = Www
    /\ h = Idle
    /\ dirty = FALSE
    /\ dirtyRead = FALSE

\* A request arrives: do_GET (send_body) or do_HEAD.
Start ==
    /\ h.pc = "idle"
    /\ \E p \in Requests, send_body \in BOOLEAN : h' = Frame(p, send_body)
    /\ dirty' = FALSE
    /\ dirtyRead' = FALSE
    /\ UNCHANGED <<fs, root>>

CallSafePath ==
    /\ h.pc = "safe_path"
    /\ h' = SafePathStep(h, fs, root)
    /\ UNCHANGED <<fs, root, dirty, dirtyRead>>

CheckIsDir ==
    /\ h.pc = "is_dir"
    /\ h' = IsDirStep(h, fs)
    /\ UNCHANGED <<fs, root, dirty, dirtyRead>>

CheckIndex ==
    /\ h.pc = "index"
    /\ h' = IndexStep(h, fs)
    /\ UNCHANGED <<fs, root, dirty, dirtyRead>>

CheckExists ==
    /\ h.pc = "exists"
    /\ h' = ExistsStep(h, fs)
    /\ UNCHANGED <<fs, root, dirty, dirtyRead>>

CheckAccess ==
    /\ h.pc = "access"
    /\ h' = AccessStep(h, fs)
    /\ UNCHANGED <<fs, root, dirty, dirtyRead>>

OpenAndRead ==
    /\ h.pc = "open"
    /\ h' = OpenStep(h, fs)
    /\ dirtyRead' = FALSE
    /\ UNCHANGED <<fs, root, dirty>>

SendResponse ==
    /\ h.pc = "send"
    /\ h' = SendStep(h, fs)
    /\ UNCHANGED <<fs, root, dirty, dirtyRead>>

\* The request is over; the handler object is dropped.
Finish ==
    /\ h.pc = "done"
    /\ h' = Idle
    /\ dirty' = FALSE
    /\ dirtyRead' = FALSE
    /\ UNCHANGED <<fs, root>>

\* Another process changed the tree.
Touch(f) ==
    /\ fs' = f
    /\ dirty' = (h.pc # "idle")
    /\ dirtyRead' = (h.pc \in {"send", "done"})
    /\ UNCHANGED <<root, h>>

WriteFile ==
    \E p \in Writable, d \in Datas :
        /\ fs[p].kind = "file"
        /\ fs[p].data # d
        /\ Touch([fs EXCEPT ![p].data = d])

Unlink ==
    \E p \in Removable :
        /\ fs[p].kind \in {"file", "link"}
        /\ Touch([fs EXCEPT ![p] = NoNode])

CreateFile ==
    \E p \in Creatable :
        /\ fs[p].kind = "none"
        /\ Touch([fs EXCEPT ![p] = FileNode(<<>>, "ok")])

\* chmod, or the medium starting or ceasing to fail.
ChangeHealth ==
    \E p \in Chmodable, hl \in Healths :
        /\ fs[p].kind = "file"
        /\ fs[p].health # hl
        /\ Touch([fs EXCEPT ![p].health = hl])

Symlink ==
    \E p \in Linkable, t \in LinkTargets :
        /\ fs[p].kind = "none"
        /\ Touch([fs EXCEPT ![p] = LinkNode(t)])

Next ==
    \/ Start
    \/ CallSafePath
    \/ CheckIsDir
    \/ CheckIndex
    \/ CheckExists
    \/ CheckAccess
    \/ OpenAndRead
    \/ SendResponse
    \/ Finish
    \/ WriteFile
    \/ Unlink
    \/ CreateFile
    \/ ChangeHealth
    \/ Symlink

Spec == Init /\ [][Next]_vars

\* _safe_path alone, on every generated request path and root, over the
\* tree as it stands.
InitPath ==
    /\ fs = Tree
    /\ root \in Roots
    /\ \E p \in GenPaths : h = Frame(p, TRUE)
    /\ dirty = FALSE
    /\ dirtyRead = FALSE

NextPath == CallSafePath

SpecPath == InitPath /\ [][NextPath]_vars

\* ------------------------------------------------------------- the claims

Range(s) == {s[i] : i \in 1..Len(s)}

\* What _safe_path answers now for the request in hand, and what lies there.
Answer == SafePath(fs, root, h.request_path)
Target == Lookup(fs, Answer.candidate)

\* The request in hand is over and nobody touched the tree meanwhile.
Quiet == h.pc = "done" /\ ~dirty

\* _safe_path has returned: a path (the handler goes on) or None (the
\* handler reports 403 at line 65).
Returned == h.pc # "safe_path"
ReturnedNone == h.pc = "done" /\ h.error = 403 /\ h.explain = "outside root"

\* C1: whatever the request path (any mix of "..", ".", empty and ordinary
\* segments, query, fragment) and the root, _safe_path returns None or a
\* canonical path that is the root or lies below it; the sibling
\* /srv/www-other of the root /srv/www is always refused.
C1_ResolvedInsideRoot ==
    Returned =>
        /\ ~ReturnedNone => /\ h.path = h.safe_path.candidate
                            /\ Resolve(fs, h.path) = h.path
                            /\ IsPrefix(root, h.path)
        /\ (root = Www /\ IsPrefix(WwwOther, h.safe_path.candidate)) => ReturnedNone

C1_Witness ==
    /\ h.pc = "is_dir"
    /\ ".." \in Range(h.request_path)
    /\ root = Www
    /\ h.path = Sub

\* C9 as stated: when the normalized path begins with two separators,
\* exactly one of them is removed.
C9_StripsExactlyOne ==
    (Returned /\ StartsWith(h.safe_path.normalized, 2)) =>
        h.safe_path.relative = Tail(h.safe_path.normalized)

\* C9, amended: every leading separator of the normalized path is removed,
\* so what is joined onto the root never begins with a separator.
C9_StripsEveryLeadingSlash ==
    Returned =>
        /\ ~StartsWith(h.safe_path.relative, 1)
        /\ \E k \in 0..Len(h.safe_path.normalized) :
               h.safe_path.normalized = Slashes(k) \o h.safe_path.relative

C9_Witness ==
    /\ h.pc = "is_dir"
    /\ StartsWith(h.safe_path.normalized, 2)
    /\ h.safe_path.relative = <<"etc">>
    /\ h.path = root \o <<"etc">>

\* C2: a request answered 200 served a file whose canonical location is the
\* root or below it, also when index.html was substituted for a directory.
C2_ServedInsideRoot ==
    (Quiet /\ h.status = 200) => IsPrefix(root, h.opened)

\* C3: /../../etc/passwd is answered 403 when the root holds no etc/passwd.
C3_TraversalForbidden ==
    (/\ h.pc = "done"
     /\ h.request_path = Seg(<<"..", "..", "etc", "passwd">>)
     /\ Lookup(fs, root \o <<"etc", "passwd">>).kind = "none")
        => h.status = 403

\* C4: every handled request ends with exactly one response, of status 200,
\* 403, 404 or 500, and no exception leaves _handle_request.
C4_ExactlyOneResponse ==
    h.pc = "done" =>
        /\ ~h.raised
        /\ h.nresp = 1
        /\ h.status \in {200, 403, 404, 500}

\* C5: a GET whose path resolves to an existing, readable regular file
\* inside the root (the tree left alone while the request is handled) is
\* answered 200 with the file's bytes as body and its size as
\* Content-Length.
C5_GetServesFile ==
    (/\ Quiet
     /\ h.send_body
     /\ Answer.safe
     /\ Target.kind = "file"
     /\ Target.health = "ok")
        => /\ h.status = 200
           /\ h.nresp = 1
           /\ ~h.raised
           /\ h.wrote
           /\ h.body = Target.data
           /\ h.clen = Len(Target.data)

C5_Witness ==
    /\ Quiet
    /\ h.send_body
    /\ h.path = ATxt
    /\ Target.kind = "file"
    /\ Target.data = <<1>>
    /\ h.status = 200
    /\ h.body = <<1>>

\* The outcome of the request in hand had it come with the other method.
OtherMethod == Run(Frame(h.request_path, ~h.send_body), fs, root)

\* C6: on the same tree HEAD and GET end with the same status and the same
\* headers on every outcome, and HEAD writes no body.
C6_HeadMatchesGet ==
    Quiet =>
        /\ OtherMethod.status = h.status
        /\ OtherMethod.nresp = h.nresp
        /\ OtherMethod.error = h.error
        /\ OtherMethod.ctype = h.ctype
        /\ OtherMethod.clen = h.clen
        /\ ~h.send_body => (~h.wrote /\ h.body = <<>>)

\* The index.html of the directory asked for: its entry, and the file it
\* leads to.
IndexEntry == Lookup(fs, Append(Answer.candidate, "index.html"))
IndexFile == Stat(fs, Append(Answer.candidate, "index.html"))
DirRequest == Quiet /\ Answer.safe /\ Target.kind = "dir"

\* C7: a directory holding a (readable, regular) index.html is answered 200
\* with its contents, one without is answered 403, and no directory request
\* is answered 404.
C7_DirectoryIndex ==
    DirRequest =>
        /\ (IndexFile.kind = "file" /\ IndexFile.health = "ok") =>
               (h.status = 200 /\ h.body = ReadContent(h.send_body, IndexFile))
        /\ IndexEntry.kind = "none" => h.status = 403
        /\ h.status # 404

\* C8: a path under the root that does not exist is answered 404 (the tree
\* left alone while the request is handled), and a path the resolver
\* refuses is answered 403, never 404.
C8_MissingIs404 ==
    /\ (Quiet /\ Answer.safe /\ Target.kind = "none") => h.status = 404
    /\ (h.pc = "done" /\ ~IsPrefix(root, h.safe_path.candidate)) => h.status = 403

\* C10 as stated: in every 200 answer to a GET the Content-Length is the
\* number of body bytes written, whatever a concurrent writer does.
C10_LengthIsBodyLength ==
    (h.pc = "done" /\ h.send_body /\ h.status = 200) => h.clen = Len(h.body)

\* C10, amended: in a 200 answer to a GET the Content-Length is the size
\* the file has at the handler's stat call; it is the number of body bytes
\* written when the tree is not changed between the read and that call.
C10_LengthIsSizeAtStat ==
    (h.pc = "done" /\ h.send_body /\ h.status = 200 /\ ~dirtyRead) =>
        /\ h.clen = Len(h.body)
        /\ h.clen = StatSize(fs, h.path)

C10_Witness ==
    /\ h.pc = "done"
    /\ h.send_body
    /\ h.status = 200
    /\ ~dirtyRead
    /\ dirty
    /\ h.clen = 1

====
